---- MODULE Spec2Model ----
(***************************************************************************)
(* A model of the property-injection container of src/src/container.ts:    *)
(* the registry and injection maps filled by the decorators Injectable and *)
(* Inject, and DIContainer.get / DIContainer.reset.                        *)
(*                                                                         *)
(* get is recursive and synchronous.  Its activation records are kept in   *)
(* `stack`; one action is one stretch of get between two calls/returns of  *)
(* get, so that the states in the middle of a resolution are visible.  The  *)
(* caller's operations (decorators, reset, a new top-level get, writing a  *)
(* property) happen only while no get is active, as JavaScript runs them.  *)
(*                                                                         *)
(* Objects live in `heap`.  `new` yields an object that is distinct from   *)
(* every object still reachable; objects that nothing refers to any more   *)
(* are dropped (garbage collection), and their identifiers are free again. *)
(***************************************************************************)
EXTENDS Naturals, Sequences, FiniteSets, TLC

\* ------------------------------------------------------------ bounds
\* Number of objects of one class that are reachable at the same time.
\* Never binding: see HeapHasRoom.
MaxInst == 3
\* Total number of @Inject records the application declares.
MaxInj == 2

\* ------------------------------------------------- the application
\* The classes of the application; a class is identified with its name.
Types == {"A", "B", "C"}
\* Property keys the application decorates.
Keys == {"p", "q"}
\* The value of a dependency reference that was not defined when captured.
Undefined == "undefined"
\* End of the prototype walk.
Null == "null"
\* The `extends` clauses: C extends B; A and B extend nothing (Object).
SuperOf == [t \in Types |-> IF t = "C" THEN "B" ELSE "Object"]

\* An object identity: the class the object was made from and a serial number
\* that tells the reachable objects of that class apart.
Ids == Types \X (1..MaxInst)
\* meta.instance absent
NoInstance == <<>>
\* An object the caller made itself (new Dep() outside the container).
CallerValue == <<"caller">>

VARIABLES
    registry,    \* Map<Constructable, Metadata>: registered class -> [instance]
    injections,  \* Map<Constructable, {key, dependency}[]>
    resolving,   \* DIContainer.resolving
    stack,       \* activation records of get, outermost first
    exc,         \* <<>> or <<e>>: the exception propagating through the stack
    heap,        \* reachable objects: identity -> [cls, props]
    outcome,     \* how the get the caller has just made ended; "none" once
                 \* the caller has moved on to another operation
    kept,        \* an instance the caller got earlier and stored in a variable
    stale        \* reachable objects created before the most recent reset()

vars == <<registry, injections, resolving, stack, exc, heap, outcome, kept, stale>>

\* ------------------------------------------------------------ errors
Name(type) == type

UndefinedMsg ==
    "[DI] Cannot resolve dependency: type is undefined. Possible circular import or missing dependency."

UnregisteredMsg(type) == "[DI] " \o Name(type) \o " is not registered. Use @Injectable"

CircularMsg(type) == "[DI] Circular dependency detected while resolving " \o Name(type)

RedefineMsg == "TypeError: Cannot redefine property"

\* ------------------------------------------------------------ objects
EmptyProps == [k \in {} |-> NoInstance]

NewObject(cls) == [cls |-> cls, props |-> EmptyProps]

\* The identity of `new cls()`: one that no reachable object has.
FreeSerials(h, cls) == {n \in 1..MaxInst : <<cls, n>> \notin DOMAIN h}

FreeId(h, cls) ==
    <<cls, CHOOSE n \in FreeSerials(h, cls) : \A m \in FreeSerials(h, cls) : n <= m>>

HasFreeId(h, cls) == FreeSerials(h, cls) # {}

\* Object.defineProperty(instance, key, {value, writable: true, configurable: true}).
\* Redefining an own property is allowed when that property is configurable.
DefinePropertyAllowed(h, id, key) ==
    key \in DOMAIN h[id].props => h[id].props[key].configurable

\* defineProperty without `writable: true` (the default is false).
DefineProperty_ReadOnly(h, id, key, value) ==
    [h EXCEPT ![id].props =
        (key :> [value |-> value, writable |-> FALSE, configurable |-> TRUE]) @@ @]

\* An injection that leaves a property alone once it is set:
\* if (!(key in instance)) Object.defineProperty(...).
DefineProperty_KeepExisting(h, id, key, value) ==
    IF key \in DOMAIN h[id].props
    THEN h
    ELSE [h EXCEPT ![id].props =
            (key :> [value |-> value, writable |-> TRUE, configurable |-> TRUE]) @@ @]

DefineProperty(h, id, key, value) ==
    [h EXCEPT ![id].props =
        (key :> [value |-> value, writable |-> TRUE, configurable |-> TRUE]) @@ @]

\* instance[key] = value  (an assignment to an own data property, strict mode)
AssignAllowed(h, id, key) == key \in DOMAIN h[id].props => h[id].props[key].writable

Assign(h, id, key, value) ==
    IF key \in DOMAIN h[id].props
    THEN [h EXCEPT ![id].props[key].value = value]
    ELSE [h EXCEPT ![id].props =
            (key :> [value |-> value, writable |-> TRUE, configurable |-> TRUE]) @@ @]

\* Objects an object refers to through its own properties.
Refs(h, id) == {h[id].props[k].value : k \in DOMAIN h[id].props} \cap DOMAIN h

RECURSIVE ReachFrom(_, _)
ReachFrom(h, ids) ==
    LET more == ids \cup UNION {Refs(h, id) : id \in ids}
    IN  IF more = ids THEN ids ELSE ReachFrom(h, more)

\* Garbage collection: keep what the roots reach.
Collect(h, roots) ==
    LET live == ReachFrom(h, roots \cap DOMAIN h)
    IN  [id \in live |-> h[id]]

Cached(reg) == {reg[t].instance : t \in DOMAIN reg} \ {NoInstance}

Held(o) == {o.value} \ {NoInstance}

Roots(reg, stk, o, k) ==
    Cached(reg) \cup {stk[i].instance : i \in DOMAIN stk} \cup Held(o) \cup Held(k)

\* ------------------------------------------------------------ outcomes
NoOutcome ==
    [kind |-> "none", type |-> Null, value |-> NoInstance, message |-> "",
     at |-> Null, unwound |-> {}]

Returned(type, value) ==
    [kind |-> "returned", type |-> type, value |-> value, message |-> "",
     at |-> Null, unwound |-> {}]

Threw(type, message, at, unwound) ==
    [kind |-> "threw", type |-> type, value |-> NoInstance, message |-> message,
     at |-> at, unwound |-> unwound]

\* What the caller stored of a returned outcome; sinceReset: reset() has not
\* been called since that get returned.
NothingKept == [type |-> Null, value |-> NoInstance, sinceReset |-> TRUE]

KeptOf(o) == [type |-> o.type, value |-> o.value, sinceReset |-> TRUE]

\* ------------------------------------------------------------ state
Init ==
    /\ registry = [t \in {} |-> [instance |-> NoInstance]]
    /\ injections = [t \in {} |-> <<>>]
    /\ resolving = {}
    /\ stack = <<>>
    /\ exc = <<>>
    /\ heap = [id \in {} |-> NewObject(Null)]
    /\ outcome = NoOutcome
    /\ kept = NothingKept
    /\ stale = {}


\* ------------------------------------------------------------ get
\* The prototype walk of get: the class a class extends, null at Object.
ParentOf(current) == IF SuperOf[current] # "Object" THEN SuperOf[current] ELSE Null

\* A class and the classes it inherits from, in the order get walks them.
RECURSIVE ChainOf(_)
ChainOf(type) == IF type = Null THEN <<>> ELSE <<type>> \o ChainOf(ParentOf(type))

ChainSet(type) == {ChainOf(type)[i] : i \in DOMAIN ChainOf(type)}

\* injections.get(current), [] standing for undefined
DirectInjections(current) ==
    IF current \in DOMAIN injections THEN injections[current] ELSE <<>>

\* A get that reports re-entry with the message of the definedness check.
GetEntry_CycleAsUndefined(type) ==
    IF type = Undefined
    THEN [tag |-> "throw", message |-> UndefinedMsg, value |-> NoInstance]
    ELSE IF type \notin DOMAIN registry
    THEN [tag |-> "throw", message |-> UnregisteredMsg(type), value |-> NoInstance]
    ELSE IF registry[type].instance # NoInstance
    THEN [tag |-> "hit", message |-> "", value |-> registry[type].instance]
    ELSE IF type \in resolving
    THEN [tag |-> "throw", message |-> UndefinedMsg, value |-> NoInstance]
    ELSE [tag |-> "enter", message |-> "", value |-> NoInstance]

\* A get without the definedness check: registry.has(undefined) is false and
\* reading undefined.name for the message throws a TypeError.
GetEntry_NoDefinednessCheck(type) ==
    IF type = Undefined
    THEN [tag |-> "throw",
          message |-> "TypeError: Cannot read properties of undefined (reading 'name')",
          value |-> NoInstance]
    ELSE IF type \notin DOMAIN registry
    THEN [tag |-> "throw", message |-> UnregisteredMsg(type), value |-> NoInstance]
    ELSE IF registry[type].instance # NoInstance
    THEN [tag |-> "hit", message |-> "", value |-> registry[type].instance]
    ELSE IF type \in resolving
    THEN [tag |-> "throw", message |-> CircularMsg(type), value |-> NoInstance]
    ELSE [tag |-> "enter", message |-> "", value |-> NoInstance]

\* A get that does not look at meta.instance.
GetEntry_NoCacheHit(type) ==
    IF type = Undefined
    THEN [tag |-> "throw", message |-> UndefinedMsg, value |-> NoInstance]
    ELSE IF type \notin DOMAIN registry
    THEN [tag |-> "throw", message |-> UnregisteredMsg(type), value |-> NoInstance]
    ELSE IF type \in resolving
    THEN [tag |-> "throw", message |-> CircularMsg(type), value |-> NoInstance]
    ELSE [tag |-> "enter", message |-> "", value |-> NoInstance]

\* A get whose first two checks were merged into one:
\* if (!type || !registry.has(type)) throw the undefined-type error.
GetEntry_MergedChecks(type) ==
    IF type = Undefined \/ type \notin DOMAIN registry
    THEN [tag |-> "throw", message |-> UndefinedMsg, value |-> NoInstance]
    ELSE IF registry[type].instance # NoInstance
    THEN [tag |-> "hit", message |-> "", value |-> registry[type].instance]
    ELSE IF type \in resolving
    THEN [tag |-> "throw", message |-> CircularMsg(type), value |-> NoInstance]
    ELSE [tag |-> "enter", message |-> "", value |-> NoInstance]

\* A get without the cycle check: a re-entered type is constructed again.
GetEntry_NoCycleCheck(type) ==
    IF type = Undefined
    THEN [tag |-> "throw", message |-> UndefinedMsg, value |-> NoInstance]
    ELSE IF type \notin DOMAIN registry
    THEN [tag |-> "throw", message |-> UnregisteredMsg(type), value |-> NoInstance]
    ELSE IF registry[type].instance # NoInstance
    THEN [tag |-> "hit", message |-> "", value |-> registry[type].instance]
    ELSE [tag |-> "enter", message |-> "", value |-> NoInstance]

\* A get that takes every type it has met during the call for a re-entered
\* one: the finished types are not told apart from the active ones.
GetEntry_VisitedSet(type) ==
    IF type = Undefined
    THEN [tag |-> "throw", message |-> UndefinedMsg, value |-> NoInstance]
    ELSE IF type \notin DOMAIN registry
    THEN [tag |-> "throw", message |-> UnregisteredMsg(type), value |-> NoInstance]
    ELSE IF type \in resolving \/ (stack # <<>> /\ registry[type].instance # NoInstance)
    THEN [tag |-> "throw", message |-> CircularMsg(type), value |-> NoInstance]
    ELSE IF registry[type].instance # NoInstance
    THEN [tag |-> "hit", message |-> "", value |-> registry[type].instance]
    ELSE [tag |-> "enter", message |-> "", value |-> NoInstance]

\* The part of get before `try`: what the call does with `type`.
GetEntry(type) ==
    IF type = Undefined
    THEN [tag |-> "throw", message |-> UndefinedMsg, value |-> NoInstance]
    ELSE IF type \notin DOMAIN registry
    THEN [tag |-> "throw", message |-> UnregisteredMsg(type), value |-> NoInstance]
    ELSE IF registry[type].instance # NoInstance
    THEN [tag |-> "hit", message |-> "", value |-> registry[type].instance]
    ELSE IF type \in resolving
    THEN [tag |-> "throw", message |-> CircularMsg(type), value |-> NoInstance]
    ELSE [tag |-> "enter", message |-> "", value |-> NoInstance]

\* A get that never adds to `resolving`.
AcquireResolving_Skip(res, type) == res

\* this.resolving.add(type)
AcquireResolving(res, type) == res \cup {type}

\* A get without the `finally`.
ReleaseResolving_Skip(res, type) == res

\* finally { this.resolving.delete(type) }
ReleaseResolving(res, type) == res \ {type}

\* A get that forgot to store the instance it built.
CacheInstance_Skip(reg, type, instance) == reg

\* meta.instance = instance
CacheInstance(reg, type, instance) == [reg EXCEPT ![type].instance = instance]

\* A walk that starts at the base class (the farthest ancestor below
\* Object) instead of the class itself.
NewFrame_FromBase(type, id) ==
    LET RECURSIVE BaseOf(_)
        BaseOf(t) == IF ParentOf(t) = Null THEN t ELSE BaseOf(ParentOf(t))
    IN  [type |-> type, instance |-> id, current |-> BaseOf(type), i |-> 1]

\* An activation of get that is inside `try`: `instance` is the object it
\* constructed, `current` the class of the walk, `i` the next record of it.
NewFrame(type, id) == [type |-> type, instance |-> id, current |-> type, i |-> 1]

Top == stack[Len(stack)]

Pending(f) == f.current # Null /\ f.i <= Len(DirectInjections(f.current))

\* heap and stale after an action: unreachable objects are gone.
Settle(h, st) ==
    /\ heap' = Collect(h, Roots(registry', stack', outcome', kept'))
    /\ stale' = st \cap DOMAIN heap'

\* A get that stores the instance in meta.instance as soon as it is
\* constructed, before its dependencies are resolved.
Enter_CacheEarly(type) ==
    /\ HasFreeId(heap, type)
    /\ resolving' = AcquireResolving(resolving, type)
    /\ stack' = Append(stack, NewFrame(type, FreeId(heap, type)))
    /\ outcome' = IF stack = <<>> THEN NoOutcome ELSE outcome
    /\ registry' = CacheInstance(registry, type, FreeId(heap, type))
    /\ UNCHANGED <<injections, exc, kept>>
    /\ Settle((FreeId(heap, type) :> NewObject(type)) @@ heap, stale)

\* this.resolving.add(type); const instance = new type();
Enter(type) ==
    /\ HasFreeId(heap, type)
    /\ resolving' = AcquireResolving(resolving, type)
    /\ stack' = Append(stack, NewFrame(type, FreeId(heap, type)))
    /\ outcome' = IF stack = <<>> THEN NoOutcome ELSE outcome
    /\ UNCHANGED <<registry, injections, exc, kept>>
    /\ Settle((FreeId(heap, type) :> NewObject(type)) @@ heap, stale)

\* A walk that assigns every dependency of a class to the key of the class's
\* first record.
Deliver_FirstKey(stk, value) ==
    LET caller == stk[Len(stk)]
        rec == DirectInjections(caller.current)[1]
    IN  IF DefinePropertyAllowed(heap, caller.instance, rec.key)
        THEN /\ stack' = [stk EXCEPT ![Len(stk)].i = @ + 1]
             /\ exc' = <<>>
             /\ UNCHANGED <<outcome, kept>>
             /\ Settle(DefineProperty(heap, caller.instance, rec.key, value), stale)
        ELSE /\ stack' = stk
             /\ exc' = <<[message |-> RedefineMsg, at |-> caller.type, unwound |-> {}]>>
             /\ UNCHANGED <<outcome, kept>>
             /\ Settle(heap, stale)

\* The caller frame on top of `stk` receives `value` from its nested get:
\* Object.defineProperty(instance, key, {value, ...}), then the next record.
Deliver(stk, value) ==
    LET caller == stk[Len(stk)]
        rec == DirectInjections(caller.current)[caller.i]
    IN  IF DefinePropertyAllowed(heap, caller.instance, rec.key)
        THEN /\ stack' = [stk EXCEPT ![Len(stk)].i = @ + 1]
             /\ exc' = <<>>
             /\ UNCHANGED <<outcome, kept>>
             /\ Settle(DefineProperty(heap, caller.instance, rec.key, value), stale)
        ELSE /\ stack' = stk
             /\ exc' = <<[message |-> RedefineMsg, at |-> caller.type, unwound |-> {}]>>
             /\ UNCHANGED <<outcome, kept>>
             /\ Settle(heap, stale)

\* Container.get(type) called by the application.
TopGet(type) ==
    /\ stack = <<>>
    /\ LET e == GetEntry(type)
       IN  IF e.tag = "enter"
           THEN Enter(type)
           ELSE /\ outcome' = IF e.tag = "hit"
                              THEN Returned(type, e.value)
                              ELSE Threw(type, e.message, type, {})
                /\ UNCHANGED <<registry, injections, resolving, stack, exc, kept>>
                /\ Settle(heap, stale)

\* this.get(dependency) for the next record of the walk.
NestedGet ==
    /\ stack # <<>>
    /\ exc = <<>>
    /\ Pending(Top)
    /\ LET rec == DirectInjections(Top.current)[Top.i]
           e == GetEntry(rec.dependency)
       IN  IF e.tag = "enter"
           THEN Enter(rec.dependency)
           ELSE IF e.tag = "hit"
           THEN /\ UNCHANGED <<registry, injections, resolving>>
                /\ Deliver(stack, e.value)
           ELSE /\ exc' = <<[message |-> e.message, at |-> rec.dependency, unwound |-> {}]>>
                /\ UNCHANGED <<registry, injections, resolving, stack, outcome, kept>>
                /\ Settle(heap, stale)

\* A get that looks at the records of the class itself only.
WalkUp_OwnRecordsOnly ==
    /\ stack # <<>>
    /\ exc = <<>>
    /\ Top.current # Null
    /\ ~Pending(Top)
    /\ stack' = [stack EXCEPT ![Len(stack)].current = Null, ![Len(stack)].i = 1]
    /\ UNCHANGED <<registry, injections, resolving, exc, heap, outcome, kept, stale>>

\* The records of `current` are done: move up the prototype chain.
WalkUp ==
    /\ stack # <<>>
    /\ exc = <<>>
    /\ Top.current # Null
    /\ ~Pending(Top)
    /\ stack' = [stack EXCEPT ![Len(stack)].current = ParentOf(@), ![Len(stack)].i = 1]
    /\ UNCHANGED <<registry, injections, resolving, exc, heap, outcome, kept, stale>>

\* The walk is over: meta.instance = instance; return instance; finally delete.
Finish ==
    /\ stack # <<>>
    /\ exc = <<>>
    /\ Top.current = Null
    /\ registry' = CacheInstance(registry, Top.type, Top.instance)
    /\ resolving' = ReleaseResolving(resolving, Top.type)
    /\ UNCHANGED injections
    /\ LET rest == SubSeq(stack, 1, Len(stack) - 1)
       IN  IF rest = <<>>
           THEN /\ stack' = <<>>
                /\ exc' = <<>>
                /\ outcome' = Returned(Top.type, Top.instance)
                /\ UNCHANGED kept
                /\ Settle(heap, stale)
           ELSE Deliver(rest, Top.instance)

\* A get that catches the error of a nested get and throws one of its own:
\* catch (e) { throw new Error(circular message for `type`) }.
Unwind_Rethrow ==
    /\ stack # <<>>
    /\ exc # <<>>
    /\ resolving' = ReleaseResolving(resolving, Top.type)
    /\ stack' = SubSeq(stack, 1, Len(stack) - 1)
    /\ UNCHANGED <<registry, injections, kept>>
    /\ IF Len(stack) = 1
       THEN /\ exc' = <<>>
            /\ outcome' = Threw(Top.type, CircularMsg(Top.type), Top.type,
                                exc[1].unwound \cup {Top.type})
       ELSE /\ exc' = <<[message |-> CircularMsg(Top.type), at |-> Top.type,
                         unwound |-> exc[1].unwound \cup {Top.type}]>>
            /\ UNCHANGED outcome
    /\ Settle(heap, stale)

\* A get that undoes the caching done under it when it fails:
\* catch (e) { this.reset(); throw e }.
Unwind_Rollback ==
    /\ stack # <<>>
    /\ exc # <<>>
    /\ resolving' = ReleaseResolving(resolving, Top.type)
    /\ stack' = SubSeq(stack, 1, Len(stack) - 1)
    /\ registry' = [t \in DOMAIN registry |-> [instance |-> NoInstance]]
    /\ UNCHANGED <<injections, kept>>
    /\ IF Len(stack) = 1
       THEN /\ exc' = <<>>
            /\ outcome' = Threw(Top.type, exc[1].message, exc[1].at,
                                exc[1].unwound \cup {Top.type})
       ELSE /\ exc' = <<[exc[1] EXCEPT !.unwound = @ \cup {Top.type}]>>
            /\ UNCHANGED outcome
    /\ Settle(heap, stale)

\* An exception leaves one activation: finally { this.resolving.delete(type) }.
Unwind ==
    /\ stack # <<>>
    /\ exc # <<>>
    /\ resolving' = ReleaseResolving(resolving, Top.type)
    /\ stack' = SubSeq(stack, 1, Len(stack) - 1)
    /\ UNCHANGED <<registry, injections, kept>>
    /\ IF Len(stack) = 1
       THEN /\ exc' = <<>>
            /\ outcome' = Threw(Top.type, exc[1].message, exc[1].at,
                                exc[1].unwound \cup {Top.type})
       ELSE /\ exc' = <<[exc[1] EXCEPT !.unwound = @ \cup {Top.type}]>>
            /\ UNCHANGED outcome
    /\ Settle(heap, stale)

\* ------------------------------------------------------------ reset
\* A reset that leaves the instances of classes without own records in place.
ClearInstances_OnlyInjected(reg) ==
    [t \in DOMAIN reg |->
        IF t \in DOMAIN injections THEN [instance |-> NoInstance] ELSE reg[t]]

\* A reset that empties the registry: registry.clear().
ClearInstances_Unregister(reg) == [t \in {} |-> [instance |-> NoInstance]]

\* for (const meta of registry.values()) delete meta.instance
ClearInstances(reg) == [t \in DOMAIN reg |-> [instance |-> NoInstance]]

Reset ==
    /\ stack = <<>>
    /\ registry' = ClearInstances(registry)
    /\ outcome' = NoOutcome
    /\ kept' = [kept EXCEPT !.sinceReset = (kept.value = NoInstance)]
    /\ UNCHANGED <<injections, resolving, stack, exc>>
    /\ Settle(heap, DOMAIN heap)

\* ------------------------------------------------------------ decorators
\* A decorator that calls registry.set(target, {}) without asking registry.has.
Register_Overwrite(reg, target) ==
    [t \in DOMAIN reg \cup {target} |->
        IF t = target THEN [instance |-> NoInstance] ELSE reg[t]]

\* if (!registry.has(target)) registry.set(target, {})
Register(reg, target) ==
    IF target \notin DOMAIN reg
    THEN (target :> [instance |-> NoInstance]) @@ reg
    ELSE reg

\* @Injectable() on class `target`
Injectable(target) ==
    /\ stack = <<>>
    /\ registry' = Register(registry, target)
    /\ outcome' = NoOutcome
    /\ UNCHANGED <<injections, resolving, stack, exc, kept>>
    /\ Settle(heap, stale)

AddInjection(inj, constructor, key, dependency) ==
    LET had == IF constructor \in DOMAIN inj THEN inj[constructor] ELSE <<>>
    IN  (constructor :> Append(had, [key |-> key, dependency |-> dependency])) @@ inj

InjectionCount == 
    LET RECURSIVE Sum(_)
        Sum(S) == IF S = {} THEN 0
                  ELSE LET t == CHOOSE x \in S : TRUE
                       IN  Len(injections[t]) + Sum(S \ {t})
    IN  Sum(DOMAIN injections)

\* Property decorators run while their class is being declared: before the
\* class decorator of that class and before any subclass is declared.
ClassOpen(constructor) ==
    \A t \in DOMAIN registry : constructor \notin ChainSet(t)

\* Property names are opaque to the container, so the application's names
\* are taken in the order of Keys' listing: "q" is used once "p" is.
UsedKeys ==
    UNION {{injections[t][i].key : i \in DOMAIN injections[t]} : t \in DOMAIN injections}

KeyInTurn(key) == key = "q" => "p" \in UsedKeys

\* @Inject(dependency) on property `key` of class `constructor`
Inject(dependency, constructor, key) ==
    /\ stack = <<>>
    /\ ClassOpen(constructor)
    /\ KeyInTurn(key)
    /\ InjectionCount < MaxInj
    /\ injections' = AddInjection(injections, constructor, key, dependency)
    /\ outcome' = NoOutcome
    /\ UNCHANGED <<registry, resolving, stack, exc, kept>>
    /\ Settle(heap, stale)

\* ------------------------------------------------------------ the caller
\* const x = Container.get(...): the caller keeps the instance it got.
Keep ==
    /\ stack = <<>>
    /\ outcome.kind = "returned"
    /\ kept = NothingKept
    /\ kept' = KeptOf(outcome)
    /\ UNCHANGED <<registry, injections, resolving, stack, exc, outcome>>
    /\ Settle(heap, stale)

\* (instance as any)[key] = new Dep(): the caller overwrites an injected
\* property of the instance it got with an object of its own.  In strict
\* mode the assignment throws when the property is not writable.
Overwrite(key) ==
    /\ stack = <<>>
    /\ outcome.kind = "returned"
    /\ key \in DOMAIN heap[outcome.value].props
    /\ UNCHANGED <<registry, injections, resolving, stack, exc, outcome, kept>>
    /\ Settle(IF AssignAllowed(heap, outcome.value, key)
              THEN Assign(heap, outcome.value, key, CallerValue)
              ELSE heap, stale)

\* ------------------------------------------------------------ behaviours
Next ==
    \/ \E type \in Types \cup {Undefined} : TopGet(type)
    \/ NestedGet
    \/ WalkUp
    \/ Finish
    \/ Unwind
    \/ Reset
    \/ \E target \in Types : Injectable(target)
    \/ \E dependency \in Types \cup {Undefined}, constructor \in Types, key \in Keys :
          Inject(dependency, constructor, key)
    \/ Keep
    \/ \E key \in Keys : Overwrite(key)

Spec == Init /\ [][Next]_vars

\* ------------------------------------------------------------ sanity
TypeOK ==
    /\ DOMAIN registry \subseteq Types
    /\ DOMAIN injections \subseteq Types
    /\ resolving \subseteq Types
    /\ DOMAIN heap \subseteq Ids
    /\ stale \subseteq DOMAIN heap
    /\ Len(exc) <= 1
    /\ Roots(registry, stack, outcome, kept) \subseteq DOMAIN heap

\* `new` never runs out of identifiers within the bounds.
HeapHasRoom == \A cls \in Types : HasFreeId(heap, cls)

\* ------------------------------------------------------------ the injection graph
\* The records get(type) goes through, in the order of its walk: the class's
\* own records, then those of each ancestor, nearest first.
RECURSIVE RecordsFrom(_)
RecordsFrom(current) ==
    IF current = Null THEN <<>>
    ELSE DirectInjections(current) \o RecordsFrom(ParentOf(current))

\* The dependency references get(type) resolves.
DepsOf(type) == {RecordsFrom(type)[i].dependency : i \in DOMAIN RecordsFrom(type)}

RECURSIVE DepClosure(_)
DepClosure(S) ==
    LET more == S \cup UNION {DepsOf(t) : t \in S \cap Types}
    IN  IF more = S THEN S ELSE DepClosure(more)

\* Every reference some chain of nested gets from get(root) can reach.
ReachableFrom(root) == DepClosure(DepsOf(root))

OnCycle(type) == type \in ReachableFrom(type)

CycleReachable(root) ==
    \E t \in ({root} \cup ReachableFrom(root)) \cap Types : OnCycle(t)

\* The root and every reference reachable from it are defined and registered.
AllRegistered(root) ==
    /\ root \in DOMAIN registry
    /\ ReachableFrom(root) \subseteq DOMAIN registry

\* The dependency of the record that is assigned last to `key` by get(type).
FinalDep(type, key) ==
    LET recs == RecordsFrom(type)
        idx == {i \in DOMAIN recs : recs[i].key = key}
    IN  IF idx = {} THEN Null
        ELSE recs[CHOOSE i \in idx : \A j \in idx : j <= i].dependency

\* instance[key], undefined read as NoInstance
Prop(id, key) ==
    IF key \in DOMAIN heap[id].props THEN heap[id].props[key].value ELSE NoInstance

\* ------------------------------------------------------------ claims

\* C1. Singleton identity: an instance the caller got from get(T) and kept,
\* and the instance a later get(T) returns, are the same object as long as
\* reset() was not called in between, whatever else happened in between
\* (other gets, T resolved as a nested dependency, registrations, writes).
SingletonIdentity ==
    (outcome.kind = "returned" /\ kept.type = outcome.type /\ kept.sinceReset)
        => outcome.value = kept.value

\* The second get(T) returned, and by then another instance refers to T's.
SingletonIdentityWitness ==
    /\ outcome.kind = "returned"
    /\ kept.type = outcome.type
    /\ kept.sinceReset
    /\ \E id \in DOMAIN heap : kept.value \in Refs(heap, id)

\* C2. Reset invalidation: an instance returned by a get after reset() is not
\* the instance a get of the same type returned before that reset(), and no
\* object that existed before the reset is reachable from it.
ResetInvalidation ==
    outcome.kind = "returned" =>
        /\ ReachFrom(heap, {outcome.value}) \cap stale = {}
        /\ (kept.type = outcome.type /\ ~kept.sinceReset) => outcome.value # kept.value

\* get(T); reset(); get(T) for a T that has an injected dependency.
ResetInvalidationWitness ==
    /\ outcome.kind = "returned"
    /\ kept.type = outcome.type
    /\ ~kept.sinceReset
    /\ Refs(heap, outcome.value) # {}
    /\ Refs(heap, kept.value) # {}

\* C3. Unregistered rejection: get(U) for a defined class U that is not in the
\* registry throws "[DI] U is not registered. Use @Injectable", constructs no
\* object and leaves the cache and `resolving` as they were, whether the
\* application or a get in progress makes the call.
UnregisteredRejection ==
    [][ /\ \A U \in Types \ DOMAIN registry :
              TopGet(U) =>
                  /\ outcome' = Threw(U, UnregisteredMsg(U), U, {})
                  /\ registry' = registry
                  /\ resolving' = resolving
                  /\ stack' = stack
                  /\ DOMAIN heap' \subseteq DOMAIN heap
        /\ (/\ NestedGet
            /\ DirectInjections(Top.current)[Top.i].dependency \in Types \ DOMAIN registry)
              => /\ exc' = <<[message |-> UnregisteredMsg(
                                  DirectInjections(Top.current)[Top.i].dependency),
                              at |-> DirectInjections(Top.current)[Top.i].dependency,
                              unwound |-> {}]>>
                 /\ registry' = registry
                 /\ resolving' = resolving
                 /\ stack' = stack
                 /\ heap' = heap
      ]_vars

\* get("A") threw the unregistered-type error while another instance was cached.
UnregisteredRejectionWitness ==
    /\ outcome.kind = "threw"
    /\ outcome.type = "A"
    /\ outcome.message = "[DI] A is not registered. Use @Injectable"
    /\ outcome.unwound = {}
    /\ Cached(registry) # {}

\* References reachable through registered classes only.
RECURSIVE RegisteredClosure(_)
RegisteredClosure(S) ==
    LET more == S \cup UNION {DepsOf(t) : t \in S \cap DOMAIN registry}
    IN  IF more = S THEN S ELSE RegisteredClosure(more)

\* A cycle of registered classes that get(root) can reach through registered
\* classes.
RegisteredCycleReachable(root) ==
    \E t \in ({root} \cup RegisteredClosure(DepsOf(root))) \cap DOMAIN registry :
        t \in RegisteredClosure(DepsOf(t))

\* C4 as stated: whenever an injection cycle (of registered classes) is
\* reachable from a registered, uncached root, get(root) throws the
\* circular-dependency error.
CycleAlwaysReported ==
    (/\ outcome.kind # "none"
     /\ outcome.type \in DOMAIN registry
     /\ registry[outcome.type].instance = NoInstance
     /\ RegisteredCycleReachable(outcome.type))
        => (outcome.kind = "threw" /\ outcome.message = CircularMsg(outcome.at))

\* C4, amended. True cycle detection: when the root and every reference
\* reachable from it are defined and registered and an injection cycle (of any
\* length, a self-injection included) is reachable from the root, get(root)
\* throws "[DI] Circular dependency detected while resolving X", where X is
\* the re-entered type: a type on a cycle whose get was still active.  The
\* error is raised by the nested get of a type that is in `resolving`.
TrueCycleDetection ==
    /\ (/\ outcome.kind # "none"
        /\ outcome.type \in Types
        /\ AllRegistered(outcome.type)
        /\ CycleReachable(outcome.type))
           => /\ outcome.kind = "threw"
              /\ outcome.message = CircularMsg(outcome.at)
              /\ outcome.at \in outcome.unwound
              /\ OnCycle(outcome.at)
    /\ (exc # <<>> /\ exc[1].unwound = {} /\ exc[1].at \in resolving)
           => exc[1].message = CircularMsg(exc[1].at)

\* A and B inject each other; get(A) threw, naming A, from under get(B).
TrueCycleDetectionWitness ==
    /\ outcome.kind = "threw"
    /\ outcome.type = "A"
    /\ outcome.message = "[DI] Circular dependency detected while resolving A"
    /\ outcome.unwound = {"A", "B"}

\* C5. Undefined dependency reference: a get that is handed an undefined
\* reference, at any depth, throws the undefined-type message (not the
\* circular one), that message reaches the caller of the top-level get, and
\* none of the types whose get was active is cached.
UndefinedDependency ==
    /\ (exc # <<>> /\ exc[1].at = Undefined)
          => /\ exc[1].message = UndefinedMsg
             /\ \A i \in DOMAIN stack : registry[stack[i].type].instance = NoInstance
    /\ (outcome.kind = "threw" /\ outcome.at = Undefined)
          => /\ outcome.message = UndefinedMsg
             /\ outcome.message # CircularMsg(outcome.type)
             /\ \A t \in outcome.unwound : registry[t].instance = NoInstance

\* A injects B, B injects an undefined reference; get(A) threw.
UndefinedDependencyWitness ==
    /\ outcome.kind = "threw"
    /\ outcome.type = "A"
    /\ outcome.at = Undefined
    /\ outcome.unwound = {"A", "B"}
    /\ DepsOf("A") = {"B"}
    /\ DepsOf("B") = {Undefined}

\* The caller has not overwritten instance[key].
Injected(id, key) == Prop(id, key) # CallerValue

AncestorsOf(type) == ChainSet(type) \ {type}

\* C7. Inheritance-aware injection: on the instance get(T) returns, every
\* property that an ancestor class of T declares an injection for holds the
\* cached instance of the dependency assigned last to it (unless the caller
\* has overwritten it since), whether or not the ancestor is registered and
\* also when T has no records of its own.
InheritanceAwareInjection ==
    outcome.kind = "returned" =>
        \A c \in AncestorsOf(outcome.type) :
            \A i \in DOMAIN DirectInjections(c) :
                LET key == DirectInjections(c)[i].key
                    dep == FinalDep(outcome.type, key)
                IN  /\ key \in DOMAIN heap[outcome.value].props
                    /\ Injected(outcome.value, key)
                          => /\ dep \in DOMAIN registry
                             /\ Prop(outcome.value, key) = registry[dep].instance
                             /\ heap[Prop(outcome.value, key)].cls = dep

\* C is registered and declares nothing, its base B is not registered and
\* injects A on p; get(C) returned.
InheritanceAwareInjectionWitness ==
    /\ outcome.kind = "returned"
    /\ outcome.type = "C"
    /\ "C" \notin DOMAIN injections
    /\ "B" \notin DOMAIN registry
    /\ DirectInjections("B") = <<[key |-> "p", dependency |-> "A"]>>
    /\ Prop(outcome.value, "p") = registry["A"].instance

\* C8. Writable post-injection: every property of every instance is writable,
\* so the caller's write to an injected property of the instance it got is
\* legal, and it takes effect; no later step of the container replaces a
\* value the caller wrote; and a later get of the type without reset() returns
\* that same instance.
WritablePostInjection ==
    /\ [](\A id \in DOMAIN heap : \A key \in DOMAIN heap[id].props :
              heap[id].props[key].writable)
    /\ [][ /\ \A key \in Keys :
              Overwrite(key) => heap'[outcome.value].props[key].value = CallerValue
        /\ \A id \in DOMAIN heap \cap DOMAIN heap' :
              \A key \in DOMAIN heap[id].props :
                  heap[id].props[key].value = CallerValue
                      => /\ key \in DOMAIN heap'[id].props
                         /\ heap'[id].props[key].value = CallerValue
        /\ \A T \in Types :
              (TopGet(T) /\ kept.type = T /\ kept.sinceReset)
                  => outcome' = Returned(T, kept.value)
      ]_vars

\* The caller overwrote p of the instance it keeps; get returned it again.
WritablePostInjectionWitness ==
    /\ outcome.kind = "returned"
    /\ kept.type = outcome.type
    /\ kept.value = outcome.value
    /\ kept.sinceReset
    /\ FinalDep(outcome.type, "p") \in Types
    /\ Prop(outcome.value, "p") = CallerValue

\* C9. `resolving` holds exactly the types of the active gets that passed the
\* cycle check, each once; it is empty whenever no get is active, after a
\* return as after a throw.
ResolvingIsTheStack ==
    /\ resolving = {stack[i].type : i \in DOMAIN stack}
    /\ \A i, j \in DOMAIN stack : stack[i].type = stack[j].type => i = j
    /\ stack = <<>> => (resolving = {} /\ exc = <<>>)

\* An exception has left the innermost of two active gets.
ResolvingIsTheStackWitness ==
    /\ Len(stack) = 1
    /\ exc # <<>>
    /\ Cardinality(exc[1].unwound) = 1
    /\ Cardinality(resolving) = 1

\* A root whose get must succeed: everything reachable is registered and
\* defined, and no cycle is reachable.
Resolvable(root) == AllRegistered(root) /\ ~CycleReachable(root)

\* C10. Failure leaves no partial instance: after a top-level get threw, the
\* type at which it failed and the types whose get was active hold no cached
\* instance and `resolving` is empty; and a top-level get of a resolvable root
\* returns, also after earlier failures.
FailureLeavesNoPartialInstance ==
    /\ outcome.kind = "threw" =>
          /\ \A t \in (outcome.unwound \cup {outcome.at}) \cap DOMAIN registry :
                registry[t].instance = NoInstance
          /\ resolving = {}
          /\ stack = <<>>
    /\ (outcome.kind # "none" /\ outcome.type \in Types /\ Resolvable(outcome.type))
          => outcome.kind = "returned"

\* get threw with two gets active, and a different, resolvable root exists.
FailureLeavesNoPartialInstanceWitness ==
    /\ outcome.kind = "threw"
    /\ Cardinality(outcome.unwound) = 2
    /\ \E r \in DOMAIN registry \ outcome.unwound : Resolvable(r)

\* ------------------------------------------------------------ termination
\* A get in progress is never suspended (container.ts is synchronous): the
\* steps of an active get are taken until it has returned or thrown.
GetStep == NestedGet \/ WalkUp \/ Finish \/ Unwind

LiveSpec == Spec /\ WF_vars(GetStep)

\* The messages get throws.
ContainerMsgs(at) == {UndefinedMsg, UnregisteredMsg(at), CircularMsg(at)}

\* C11. Termination: whatever the registered types and the injection records
\* are (self-loops, longer cycles, cycles through an ancestor's records,
\* unregistered and undefined dependencies), a get that became active ends:
\* it returns, or it throws the undefined-type, the unregistered-type or the
\* circular-dependency error; and the number of nested active gets never
\* exceeds the number of registered types (plus one for a call that throws
\* before it becomes active).
Termination ==
    /\ [](Len(stack) <= Cardinality(DOMAIN registry))
    /\ [](exc # <<>> => exc[1].message \in ContainerMsgs(exc[1].at))
    /\ [](outcome.kind = "threw" => outcome.message \in ContainerMsgs(outcome.at))
    /\ (stack # <<>>) ~> (stack = <<>> /\ outcome.kind \in {"returned", "threw"})

\* Three nested gets, as many as there are registered types; the innermost,
\* of C, re-entered C through the record C inherits from B.
TerminationWitness ==
    /\ Len(stack) = 3
    /\ Cardinality(DOMAIN registry) = 3
    /\ Top.type = "C"
    /\ Top.current = "B"
    /\ exc # <<>>
    /\ exc[1].message = "[DI] Circular dependency detected while resolving C"

\* ------------------------------------------------------------ registration
\* C12. Registration is idempotent: @Injectable on a class that is already
\* registered changes neither the registry (the cached instances included)
\* nor the injection records nor `resolving`; when the class has a cached
\* instance, the get that follows is a cache hit on that same instance.
RegistrationIdempotent ==
    [][ \A T \in DOMAIN registry :
            Injectable(T) =>
                /\ registry' = registry
                /\ injections' = injections
                /\ resolving' = resolving
                /\ registry[T].instance # NoInstance =>
                      GetEntry(T)' = [tag |-> "hit", message |-> "",
                                      value |-> registry[T].instance]
      ]_vars

\* A was registered and resolved, the caller kept the instance, and then A
\* was registered again: with A the only registered class and no injection
\* records, the caller's last operation (which cleared `outcome`) was neither
\* reset (A is cached) nor Inject nor the registration of another class.
RegistrationIdempotentWitness ==
    /\ DOMAIN registry = {"A"}
    /\ DOMAIN injections = {}
    /\ outcome = NoOutcome
    /\ kept.type = "A"
    /\ kept.sinceReset
    /\ registry["A"].instance = kept.value

\* ------------------------------------------------------------ reset, frame
\* C13. reset() unsets the cached instance of every registered type and
\* changes nothing else: the set of registered types, every type's sequence
\* of injection records and `resolving` are after reset() what they were
\* before it; and the state reset() leaves is one a second reset() does not
\* change (so reset(); reset() is reset()).
ResetFrame ==
    [][ Reset =>
          /\ DOMAIN registry' = DOMAIN registry
          /\ \A t \in DOMAIN registry' : registry'[t].instance = NoInstance
          /\ injections' = injections
          /\ resolving' = resolving
          /\ stack' = stack
          /\ ClearInstances(registry') = registry'
      ]_vars

\* reset() was called while two types were registered, one of them cached and
\* kept by the caller, and an injection record existed.
ResetFrameWitness ==
    /\ kept.type \in Types
    /\ ~kept.sinceReset
    /\ outcome = NoOutcome
    /\ Cardinality(DOMAIN registry) = 2
    /\ Cached(registry) = {}
    /\ InjectionCount = 1
    /\ stale # {}

\* ------------------------------------------------------------ propagation
\* C14. Errors propagate unchanged: the error a nested get raises names the
\* type that get was called with; every step taken while it propagates
\* leaves one activation, keeps its message, and caches nothing; and the
\* caller of the top-level get receives exactly that message, which names
\* the type of the innermost failing get and not the root or a type between.
ErrorsPropagateUnchanged ==
    /\ [](exc # <<>> =>
             /\ exc[1].message \in ContainerMsgs(exc[1].at)
             /\ exc[1].at \in Types =>
                   exc[1].message \in {UnregisteredMsg(exc[1].at), CircularMsg(exc[1].at)})
    /\ [](outcome.kind = "threw" =>
             /\ outcome.message \in ContainerMsgs(outcome.at)
             /\ outcome.value = NoInstance
             /\ \A t \in Types \ {outcome.at} :
                   outcome.message \notin {UnregisteredMsg(t), CircularMsg(t)})
    /\ [][ /\ (NestedGet /\ exc' # <<>>) =>
                 exc'[1].at = DirectInjections(Top.current)[Top.i].dependency
           /\ exc # <<>> =>
                 /\ stack' = SubSeq(stack, 1, Len(stack) - 1)
                 /\ registry' = registry
                 /\ IF stack' = <<>>
                    THEN /\ exc' = <<>>
                         /\ outcome'.kind = "threw"
                         /\ outcome'.type = stack[1].type
                         /\ outcome'.message = exc[1].message
                         /\ outcome'.at = exc[1].at
                    ELSE /\ exc' # <<>>
                         /\ exc'[1].message = exc[1].message
                         /\ exc'[1].at = exc[1].at
                         /\ outcome' = outcome
      ]_vars

\* A injects B, B injects the unregistered C: get(A) threw C's error, which
\* passed through the gets of B and of A.
ErrorsPropagateUnchangedWitness ==
    /\ outcome.kind = "threw"
    /\ outcome.type = "A"
    /\ outcome.at = "C"
    /\ outcome.message = "[DI] C is not registered. Use @Injectable"
    /\ outcome.unwound = {"A", "B"}

\* ------------------------------------------------------------ completeness
\* The keys get(type) assigns.
KeysOf(type) == {RecordsFrom(type)[i].key : i \in DOMAIN RecordsFrom(type)}

\* C15 as stated: when get(T) returns, for every record (key, D) declared on
\* T the property `key` of the returned instance holds the instance of
\* exactly type D (as long as the caller has not written to it), T declaring
\* each of its keys once.
EveryRecordHeld ==
    (/\ outcome.kind = "returned"
     /\ \A i, j \in DOMAIN DirectInjections(outcome.type) :
            DirectInjections(outcome.type)[i].key = DirectInjections(outcome.type)[j].key
                => i = j) =>
        \A i \in DOMAIN DirectInjections(outcome.type) :
            LET rec == DirectInjections(outcome.type)[i]
            IN  Injected(outcome.value, rec.key) =>
                    /\ Prop(outcome.value, rec.key) \in DOMAIN heap
                    /\ heap[Prop(outcome.value, rec.key)].cls = rec.dependency

\* C15, amended. Complete transitive injection: when get(T) returns, the
\* returned instance and every instance reachable from it through injected
\* properties have exactly the properties their class and its ancestors
\* declare; a property the caller has not overwritten holds the cached
\* instance, of exactly the declared type, of the record assigned to it; that
\* record is (key, D) itself for every record whose key no later record of
\* the walk (a later record of the same class, or a record of an ancestor)
\* declares again; and different keys never receive each other's values.
CompleteTransitiveInjection ==
    outcome.kind = "returned" =>
        \A id \in ReachFrom(heap, {outcome.value}) :
            LET recs == RecordsFrom(heap[id].cls)
            IN  /\ DOMAIN heap[id].props = KeysOf(heap[id].cls)
                /\ \A i \in DOMAIN recs :
                      LET key == recs[i].key
                          last == \A j \in DOMAIN recs : j > i => recs[j].key # key
                      IN  Injected(id, key) =>
                            /\ FinalDep(heap[id].cls, key) \in DOMAIN registry
                            /\ Prop(id, key) = registry[FinalDep(heap[id].cls, key)].instance
                            /\ heap[Prop(id, key)].cls = FinalDep(heap[id].cls, key)
                            /\ last => heap[Prop(id, key)].cls = recs[i].dependency

\* B injects A on p, C (which extends B) injects B on q; get(C) returned an
\* instance whose q is the B with its own p set, and whose p is that same A.
CompleteTransitiveInjectionWitness ==
    /\ outcome.kind = "returned"
    /\ outcome.type = "C"
    /\ DirectInjections("C") = <<[key |-> "q", dependency |-> "B"]>>
    /\ DirectInjections("B") = <<[key |-> "p", dependency |-> "A"]>>
    /\ heap[Prop(outcome.value, "q")].cls = "B"
    /\ heap[Prop(Prop(outcome.value, "q"), "p")].cls = "A"
    /\ Prop(outcome.value, "p") = Prop(Prop(outcome.value, "q"), "p")

\* ------------------------------------------------------------ shared dependencies
\* C16. No false cycle errors on shared dependencies: the circular error is
\* thrown for a type on an injection cycle only; a type whose get is active
\* has no cached instance, so a type finished in an earlier branch is a cache
\* hit; a get of a root from which everything reachable is registered and
\* defined and no cycle is reachable returns, also when a type is reached
\* along several branches, and holds one instance per type; and an object is
\* constructed only of a type that has no cached instance and no active get,
\* a cached instance staying in place while a get is active (so each type is
\* constructed once during the call).
NoFalseCycle ==
    /\ [](exc # <<>> /\ exc[1].message = CircularMsg(exc[1].at) => OnCycle(exc[1].at))
    /\ [](\A t \in resolving : registry[t].instance = NoInstance)
    /\ []((outcome.kind # "none" /\ outcome.type \in Types /\ Resolvable(outcome.type))
             => /\ outcome.kind = "returned"
                /\ \A id, jd \in ReachFrom(heap, {outcome.value}) :
                      heap[id].cls = heap[jd].cls => id = jd)
    /\ [][ /\ \A id \in DOMAIN heap' \ DOMAIN heap :
                 /\ registry[id[1]].instance = NoInstance
                 /\ id[1] \notin resolving
                 /\ DOMAIN heap' \ DOMAIN heap = {id}
           /\ \A t \in DOMAIN registry :
                 (stack # <<>> /\ registry[t].instance # NoInstance)
                     => registry'[t].instance = registry[t].instance
      ]_vars

\* C (which extends B) injects B on p and inherits B's record of A on q:
\* get(C) met A under B and again in its own walk, and returned.
NoFalseCycleWitness ==
    /\ outcome.kind = "returned"
    /\ outcome.type = "C"
    /\ DirectInjections("C") = <<[key |-> "p", dependency |-> "B"]>>
    /\ DirectInjections("B") = <<[key |-> "q", dependency |-> "A"]>>
    /\ Prop(outcome.value, "q") = registry["A"].instance
    /\ Prop(Prop(outcome.value, "p"), "q") = registry["A"].instance
    /\ stale = {}

\* ------------------------------------------------------------ resolution order
\* The number of records of the walk of `type` that come before those of the
\* class `current` of its chain (all of them when current is null).
RECURSIVE DoneBefore(_, _)
DoneBefore(type, current) ==
    IF type = current \/ type = Null THEN 0
    ELSE Len(DirectInjections(type)) + DoneBefore(ParentOf(type), current)

\* The number of records an activation has behind it.
Position(f) == DoneBefore(f.type, f.current) + f.i - 1

\* What get(type) does when nothing is cached, `active` being the types
\* whose get is active: depth first, the records in the order of the walk,
\* ending at the first nested get that throws.
Succeeds == [ok |-> TRUE, message |-> "", at |-> Null]

Fails(message, at) == [ok |-> FALSE, message |-> message, at |-> at]

RECURSIVE Expect(_, _), ExpectWalk(_, _, _)
Expect(type, active) ==
    IF type = Undefined THEN Fails(UndefinedMsg, type)
    ELSE IF type \notin DOMAIN registry THEN Fails(UnregisteredMsg(type), type)
    ELSE IF type \in active THEN Fails(CircularMsg(type), type)
    ELSE ExpectWalk(RecordsFrom(type), 1, active \cup {type})

ExpectWalk(recs, i, active) ==
    IF i > Len(recs) THEN Succeeds
    ELSE LET r == Expect(recs[i].dependency, active)
         IN  IF r.ok THEN ExpectWalk(recs, i + 1, active) ELSE r

\* C17. Resolution order: an active get has behind it a prefix of the records
\* of its walk (its own in declaration order, then each ancestor's, nearest
\* first): the keys of that prefix are assigned and their dependencies are
\* resolved and cached before the next record is started; the get nested in
\* it, and an error raised in it, is of the next record; so get throws the
\* error of the first record, depth first in that order, whose get fails;
\* and once an error is raised nothing more is constructed or cached.
ResolutionOrder ==
    /\ [](\A k \in DOMAIN stack :
            LET f == stack[k]
                recs == RecordsFrom(f.type)
                n == Position(f)
            IN  /\ n <= Len(recs)
                /\ DOMAIN heap[f.instance].props = {recs[j].key : j \in 1..n}
                /\ \A j \in 1..n :
                      /\ recs[j].dependency \in DOMAIN registry
                      /\ registry[recs[j].dependency].instance # NoInstance
                /\ k < Len(stack) =>
                      (n < Len(recs) /\ stack[k + 1].type = recs[n + 1].dependency)
                /\ exc # <<>> => n < Len(recs)
                /\ (k = Len(stack) /\ exc # <<>> /\ exc[1].unwound = {}) =>
                      exc[1].at = recs[n + 1].dependency)
    /\ [](outcome.kind = "threw" =>
             /\ ~Expect(outcome.type, {}).ok
             /\ outcome.at = Expect(outcome.type, {}).at
             /\ outcome.message = Expect(outcome.type, {}).message)
    /\ [][ exc # <<>> => (DOMAIN heap' \subseteq DOMAIN heap /\ registry' = registry) ]_vars

\* Both of A's dependencies fail, the unregistered B on p and an undefined
\* reference on q: get(A) threw the error of B.
ResolutionOrderWitness ==
    /\ outcome.kind = "threw"
    /\ outcome.type = "A"
    /\ DirectInjections("A") = <<[key |-> "p", dependency |-> "B"],
                                 [key |-> "q", dependency |-> Undefined]>>
    /\ outcome.at = "B"
    /\ outcome.message = "[DI] B is not registered. Use @Injectable"

\* ------------------------------------------------------------ history
\* C18. History independence of the outcome: whether a top-level get(T)
\* returns or throws, and the message it throws, is what the registered
\* types and the injection records alone determine (Expect reads nothing
\* else), whatever gets and resets, successful or failed, came before; and a
\* type from which a cycle, an unregistered type or an undefined reference
\* is reachable never has a cached instance.
HistoryIndependence ==
    /\ (outcome.kind # "none" /\ outcome.type \in Types \cup {Undefined}) =>
          /\ (outcome.kind = "returned") = Expect(outcome.type, {}).ok
          /\ outcome.message = Expect(outcome.type, {}).message
    /\ \A t \in DOMAIN registry :
          registry[t].instance # NoInstance => (Resolvable(t) /\ Expect(t, {}).ok)

\* get(A) threw the circular error after an earlier get had returned and been
\* kept, reset() had been called, and a dependency had been cached since.
HistoryIndependenceWitness ==
    /\ outcome.kind = "threw"
    /\ outcome.type = "A"
    /\ outcome.message = "[DI] Circular dependency detected while resolving A"
    /\ kept.type \in Types
    /\ ~kept.sinceReset
    /\ Cached(registry) # {}

\* ------------------------------------------------------------ failed gets
\* get(type) followed depth first in walk order, `active` being the types
\* whose get is active and `done` the types cached so far: whether it
\* returns, the types cached when it ends, and the types whose get is active
\* when it throws.
RECURSIVE Trace(_, _, _), TraceWalk(_, _, _, _, _)
Trace(type, active, done) ==
    IF type = Undefined \/ type \notin DOMAIN registry
    THEN [ok |-> FALSE, done |-> done, active |-> active]
    ELSE IF type \in done THEN [ok |-> TRUE, done |-> done, active |-> {}]
    ELSE IF type \in active THEN [ok |-> FALSE, done |-> done, active |-> active]
    ELSE TraceWalk(type, RecordsFrom(type), 1, active \cup {type}, done)

TraceWalk(type, recs, i, active, done) ==
    IF i > Len(recs) THEN [ok |-> TRUE, done |-> done \cup {type}, active |-> {}]
    ELSE LET r == Trace(recs[i].dependency, active, done)
         IN  IF r.ok THEN TraceWalk(type, recs, i + 1, active, r.done) ELSE r

\* C19. A failed get can still change the cache: when a top-level get(T)
\* has thrown, every type whose own get completed before the failure is
\* cached, and the types whose get was active at the failure, and only
\* those among the types the call constructed, are not; a cached instance is
\* replaced or removed by reset() only, and a get of a cached type returns
\* that instance.
FailedGetKeepsCompleted ==
    /\ []((outcome.kind = "threw" /\ outcome.type \in Types) =>
            LET r == Trace(outcome.type, {}, {})
            IN  /\ ~r.ok
                /\ r.active = outcome.unwound
                /\ r.done \cap r.active = {}
                /\ \A t \in r.done : registry[t].instance # NoInstance
                /\ \A t \in r.active : registry[t].instance = NoInstance)
    /\ [][ \A t \in DOMAIN registry :
             registry[t].instance # NoInstance =>
                 /\ registry'[t].instance # registry[t].instance => Reset
                 /\ TopGet(t) => outcome' = Returned(t, registry[t].instance)
      ]_vars

\* A injects the resolvable B on p and an undefined reference on q: get(A)
\* threw, A has no cached instance and B has one.
FailedGetKeepsCompletedWitness ==
    /\ outcome.kind = "threw"
    /\ outcome.type = "A"
    /\ outcome.at = Undefined
    /\ DirectInjections("A") = <<[key |-> "p", dependency |-> "B"],
                                 [key |-> "q", dependency |-> Undefined]>>
    /\ registry["A"].instance = NoInstance
    /\ registry["B"].instance # NoInstance
    /\ kept = NothingKept
    /\ stale = {}

\* ------------------------------------------------------------ key collisions
\* The classes of the chain of `type` that declare an injection for `key`.
Declaring(type, key) ==
    {c \in ChainSet(type) :
        \E i \in DOMAIN DirectInjections(c) : DirectInjections(c)[i].key = key}

\* The dependency of the last record of class c for `key`.
LastOwnDep(c, key) ==
    LET recs == DirectInjections(c)
        idx == {i \in DOMAIN recs : recs[i].key = key}
    IN  recs[CHOOSE i \in idx : \A j \in idx : j <= i].dependency

\* Some key is declared more than once along the walk of `type`.
Collides(type) ==
    \E i, j \in DOMAIN RecordsFrom(type) :
        i # j /\ RecordsFrom(type)[i].key = RecordsFrom(type)[j].key

\* C20. Property-key collision: when get(T) returns for a T along whose walk
\* a key is declared more than once (by T and an ancestor, or twice by one
\* class), the dependencies of all those records are resolved and cached,
\* and the property holds (until the caller writes to it) the instance of
\* the last-declared record of the farthest ancestor that declares the key;
\* a collision does not make a get of a resolvable root throw.
KeyCollision ==
    /\ (outcome.kind = "returned" /\ Collides(outcome.type)) =>
          /\ \A i \in DOMAIN RecordsFrom(outcome.type) :
                /\ RecordsFrom(outcome.type)[i].dependency \in DOMAIN registry
                /\ registry[RecordsFrom(outcome.type)[i].dependency].instance # NoInstance
          /\ \A key \in Keys : \A c \in Declaring(outcome.type, key) :
                (/\ \A d \in Declaring(outcome.type, key) : c \in ChainSet(d)
                 /\ Injected(outcome.value, key))
                    => Prop(outcome.value, key) = registry[LastOwnDep(c, key)].instance
    /\ (outcome.kind # "none" /\ outcome.type \in Types /\ Collides(outcome.type)
            /\ Resolvable(outcome.type))
          => outcome.kind = "returned"

\* C (which extends B) injects B on p and B injects A on p: get(C) returned
\* an instance whose p is the instance of A, B's instance being cached too.
KeyCollisionWitness ==
    /\ outcome.kind = "returned"
    /\ outcome.type = "C"
    /\ DirectInjections("C") = <<[key |-> "p", dependency |-> "B"]>>
    /\ DirectInjections("B") = <<[key |-> "p", dependency |-> "A"]>>
    /\ registry["B"].instance # NoInstance
    /\ Prop(outcome.value, "p") = registry["A"].instance

====
